---------------------------- MODULE Spec2Model ----------------------------
(***************************************************************************)
(* A model of src/missing_tokens.py: the script that reads the lists of   *)
(* tokens missing from Dune's V1 and V2 token tables, reads symbol and    *)
(* decimals of every distinct token from the chain, and writes one text   *)
(* file per engine.                                                       *)
(*                                                                         *)
(* Two specifications share the actions below.                            *)
(*   Spec       the script as written: the network list of line 151 and   *)
(*              the batch built by lines 120-123.                         *)
(*   SpecBatch  run_missing_tokens from line 125 on, for one network and  *)
(*              every MissingTokenResults(v1, v2) within the bounds.      *)
(*                                                                         *)
(* External collaborators (the Dune client, the node, the file system)    *)
(* are nondeterministic: a query may raise, a contract read may raise.    *)
(* Writing a file is assumed to succeed.                                  *)
(***************************************************************************)
EXTENDS Integers, Sequences, FiniteSets, Bags, TLC

\* ------------------------------------------------------------- bounds
\* Token contracts besides the native sentinel: addresses are 0..NumTokens.
NumTokens == 2
\* Most rows a missing-tokens query returns.
MaxLen == 2

\* ---------------------------------------------------------- addresses
\* An Address (duneapi.types.Address) is modelled by an index; equality and
\* hashing of Address are on its normalised form, so one index is one address.
NATIVE == 0

Address == 0..NumTokens

\* Web3.toChecksumAddress of each address (its EIP-55 spelling); entry 1 is the
\* sentinel of line 27, entries 2 to 4 the tokens of the comments of lines 45,
\* 49 and 59.
ChecksumTable ==
  << "0xEeeeeEeeeEeEeeEeEeEeeEEEeeeeEeeeeeeeEEeE",
     "0x96B00208911d72eA9f10c3303fF319427A7884C9",
     "0xe154A435408211AC89757B76C4FbE4Dc9ED2Ef27",
     "0xFCc5c47bE19d06BF83eB04298b026F81069ff65b",
     "0x6B175474E89094C44Da98b954EedeAC495271d0F" >>

toChecksumAddress(a) == ChecksumTable[a + 1]

\* What symbol() and decimals() of the contract at an address return when the
\* read succeeds (the sentinel has no contract: its entry is never read).
SymbolTable == << "WETH", "BLUE", "BAND", "yCRV", "DAI" >>

DecimalsTable == << 18, 18, 18, 18, 18 >>

ContractSymbol(a) == SymbolTable[a + 1]

ContractDecimals(a) == DecimalsTable[a + 1]

\* ------------------------------------------------------------ helpers
Range(s) == { s[i] : i \in DOMAIN s }

SeqsUpTo(S, n) == UNION { [1..k -> S] : k \in 0..n }

\* str.lower() of one character of a hexadecimal address.
LowerChar(c) ==
  CASE c = "A" -> "a" [] c = "B" -> "b" [] c = "C" -> "c"
    [] c = "D" -> "d" [] c = "E" -> "e" [] c = "F" -> "f"
    [] c = "X" -> "x" [] OTHER -> c

RECURSIVE LowerChars(_)
LowerChars(s) ==
  IF Len(s) = 0 THEN ""
  ELSE LowerChar(SubSeq(s, 1, 1)) \o LowerChars(SubSeq(s, 2, Len(s)))

\* str.lower() of the address strings, computed once for each.
LowerTable == [ s \in Range(ChecksumTable) |-> LowerChars(s) ]

Lower(s) == LowerTable[s]

\* A Python call either returns a value or raises an exception.
Ok(v) == [ok |-> TRUE, val |-> v]

Raise(e) == [ok |-> FALSE, val |-> e]

\* The exception that leaves a list comprehension: the first one raised.
RECURSIVE FirstRaise(_)
FirstRaise(results) ==
  IF results = <<>> THEN "none"
  ELSE IF ~ Head(results).ok THEN Head(results).val
  ELSE FirstRaise(Tail(results))

\* ------------------------------------------------------------ Network
MAINNET == "MAINNET"

GNOSIS == "GNOSIS"

\* Any member of Network other than the two as_v1_string handles.
UNSUPPORTED == "UNSUPPORTED"

Network == { MAINNET, GNOSIS, UNSUPPORTED }

\* ------------------------------------------------------- TokenDetails
NativeSymbol == "ETH"

NativeDecimals == 18

\* TokenDetails.__init__: the sentinel needs no contract read; any other
\* address reads symbol() and then decimals(), and either read may raise.
TokenDetails_init(a, symbol_ok, decimals_ok) ==
  IF toChecksumAddress(a) = toChecksumAddress(NATIVE)
  THEN Ok([address |-> toChecksumAddress(a),
           symbol |-> NativeSymbol, decimals |-> NativeDecimals])
  ELSE IF ~ symbol_ok THEN Raise("ContractLogicError")
  ELSE IF ~ decimals_ok THEN Raise("ContractLogicError")
  ELSE Ok([address |-> toChecksumAddress(a),
           symbol |-> ContractSymbol(a), decimals |-> ContractDecimals(a)])

as_v1_string(td, chain) ==
  IF chain = MAINNET
  THEN Ok("\\\\x" \o SubSeq(td.address, 3, Len(td.address))
          \o "\t" \o td.symbol \o "\t" \o ToString(td.decimals))
  ELSE IF chain = GNOSIS
  THEN Ok("('" \o td.symbol \o "', " \o ToString(td.decimals) \o ", decode('"
          \o SubSeq(td.address, 3, Len(td.address)) \o "', 'hex')),")
  ELSE Raise("ValueError")

as_v2_string(td) ==
  Ok("('" \o Lower(td.address) \o "', '" \o td.symbol \o "', "
     \o ToString(td.decimals) \o "),")

\* ------------------------------------------------ MissingTokenResults
MissingTokenResults(v1, v2) == [v1 |-> v1, v2 |-> v2]

\* is_empty with the two tests negated the wrong way.
is_empty_negated(mt) == mt.v1 # <<>> /\ mt.v2 # <<>>

is_empty(mt) == mt.v1 = <<>> /\ mt.v2 = <<>>

\* The bag that holds each element of a sequence as often as the sequence does.
SeqToBag(s) ==
  [ a \in Range(s) |-> Cardinality({ i \in DOMAIN s : s[i] = a }) ]

\* get_all_tokens without set(): the concatenated list.
get_all_tokens_concat(mt) == SeqToBag(mt.v1 \o mt.v2)

\* get_all_tokens of the V2 list alone.
get_all_tokens_v2_only(mt) == SetToBag(Range(mt.v2))

\* set(self.v1 + self.v2). The set is held as a bag with one copy of each
\* element: iterating it yields an element as often as the bag holds it.
get_all_tokens(mt) == SetToBag(Range(mt.v1 \o mt.v2))


\* -------------------------------------------------------------- state
VARIABLES
  networks,        \* the list the loop of line 151 runs over
  blockchain_idx,  \* how many networks the loop has taken from the list
  pc,              \* where the process is
  exc,             \* the exception propagating out of the process, or "none"
  rows,            \* the token column each Dune query returns, in row order
  queried,         \* the engines whose query this run has refreshed
  missing_tokens,  \* run_missing_tokens' missing_tokens
  pending,         \* what the iteration of line 132 has yet to yield
  token_details,   \* run_missing_tokens' token_details
  skipped,         \* run_missing_tokens' skipped
  res_v1,          \* run_missing_tokens' res_v1
  res_v2,          \* run_missing_tokens' res_v2
  files,           \* ./out: file name -> lines written
  summary,         \* what this run has last reported on stdout
  calls,           \* per address, the TokenDetails constructed in this run
  raised           \* the addresses whose TokenDetails raised in this run

vars ==
  << networks, blockchain_idx, pc, exc, rows, queried, missing_tokens, pending,
     token_details, skipped, res_v1, res_v2, files, summary, calls, raised >>

\* The locals of run_missing_tokens, and the record of one run.
run_vars ==
  << queried, missing_tokens, pending, token_details, skipped, res_v1, res_v2,
     summary, calls, raised >>

V1_FILE == "missing-tokens-v1.txt"

V2_FILE == "missing-tokens-v2.txt"

\* The network of the current call of run_missing_tokens.
chain == networks[blockchain_idx]

FreshRun ==
  /\ queried = {}
  /\ missing_tokens = MissingTokenResults(<<>>, <<>>)
  /\ pending = EmptyBag
  /\ token_details = <<>>
  /\ skipped = <<>>
  /\ res_v1 = <<>>
  /\ res_v2 = <<>>
  /\ summary = "none"
  /\ calls = [a \in Address |-> 0]
  /\ raised = {}

InitProcess ==
  /\ blockchain_idx = 0
  /\ pc = "main"
  /\ exc = "none"
  /\ files = <<>>
  /\ FreshRun

\* The script: line 151 lists MAINNET alone.
Init ==
  /\ networks = << MAINNET >>
  /\ rows \in [v1 : SeqsUpTo(Address, MaxLen), v2 : SeqsUpTo(Address, MaxLen)]
  /\ InitProcess

InitBatch ==
  /\ networks \in [1..1 -> Network]
  /\ rows \in [v1 : SeqsUpTo(Address, MaxLen), v2 : SeqsUpTo(Address, MaxLen)]
  /\ InitProcess

\* ------------------------------------------------------------ actions
\* Lines 151-153: the loop takes the next network and calls
\* run_missing_tokens, whose locals are new in every call.
MainLoop ==
  /\ pc = "main"
  /\ blockchain_idx < Len(networks)
  /\ blockchain_idx' = blockchain_idx + 1
  /\ pc' = "Idle"
  /\ queried' = {}
  /\ missing_tokens' = MissingTokenResults(<<>>, <<>>)
  /\ pending' = EmptyBag
  /\ token_details' = <<>>
  /\ skipped' = <<>>
  /\ res_v1' = <<>>
  /\ res_v2' = <<>>
  /\ summary' = "none"
  /\ calls' = [a \in Address |-> 0]
  /\ raised' = {}
  /\ UNCHANGED << networks, exc, rows, files >>

\* The loop has run through its list: the process ends.
MainExit ==
  /\ pc = "main"
  /\ blockchain_idx = Len(networks)
  /\ pc' = "exit"
  /\ UNCHANGED << networks, blockchain_idx, exc, rows, files, run_vars >>

\* fetch_missing_tokens: the token column of the V2 query's rows, or the
\* exception of dune.refresh, which nothing catches.
fetch_missing_tokens(query_ok) ==
  IF query_ok THEN Ok(rows.v2) ELSE Raise("DuneError")

\* FetchSources with the query's exception caught and reported: the run goes
\* on with an empty list.
FetchSources_caught ==
  /\ pc = "Idle"
  /\ \E query_ok \in BOOLEAN :
       LET v2 == fetch_missing_tokens(query_ok) IN
       /\ queried' = queried \cup {"v2"}
       /\ missing_tokens' = MissingTokenResults(<<>>, IF v2.ok THEN v2.val ELSE <<>>)
       /\ pc' = "SourcesFetched"
       /\ exc' = IF v2.ok THEN exc ELSE v2.val
  /\ UNCHANGED << networks, blockchain_idx, rows, pending, token_details,
                  skipped, res_v1, res_v2, files, summary, calls, raised >>

\* Lines 119-123: the batch of the script. v1 is the empty list; only the V2
\* query is refreshed, and fetch_missing_tokens_legacy is never called.
FetchSources ==
  /\ pc = "Idle"
  /\ \E query_ok \in BOOLEAN :
       LET v2 == fetch_missing_tokens(query_ok) IN
       /\ queried' = queried \cup {"v2"}
       /\ IF v2.ok
          THEN /\ missing_tokens' = MissingTokenResults(<<>>, v2.val)
               /\ pc' = "SourcesFetched"
               /\ exc' = exc
          ELSE /\ missing_tokens' = missing_tokens
               /\ pc' = "crashed"
               /\ exc' = v2.val
  /\ UNCHANGED << networks, blockchain_idx, rows, pending, token_details,
                  skipped, res_v1, res_v2, files, summary, calls, raised >>

\* MissingTokenResults(v1, v2) on any two lists of addresses.
BuildBatch ==
  /\ pc = "Idle"
  /\ missing_tokens' = MissingTokenResults(rows.v1, rows.v2)
  /\ pc' = "SourcesFetched"
  /\ UNCHANGED << networks, blockchain_idx, exc, rows, queried, pending,
                  token_details, skipped, res_v1, res_v2, files, summary,
                  calls, raised >>

\* Lines 125-131 and 145-146.
CheckEmpty ==
  /\ pc = "SourcesFetched"
  /\ IF ~ is_empty(missing_tokens)
     THEN /\ token_details' = <<>>
          /\ skipped' = <<>>
          /\ pending' = get_all_tokens(missing_tokens)
          /\ summary' = "found"
          /\ pc' = "Resolving"
     ELSE /\ summary' = "no_missing_tokens"
          /\ pc' = "NoTokens"
          /\ UNCHANGED << token_details, skipped, pending >>
  /\ UNCHANGED << networks, blockchain_idx, exc, rows, queried, missing_tokens,
                  res_v1, res_v2, files, calls, raised >>

\* ResolveToken without the try: the exception of TokenDetails leaves the loop.
ResolveToken_reraise ==
  /\ pc = "Resolving"
  /\ \E token \in BagToSet(pending), symbol_ok \in BOOLEAN, decimals_ok \in BOOLEAN :
       LET td == TokenDetails_init(token, symbol_ok, decimals_ok) IN
       /\ pending' = pending (-) SetToBag({token})
       /\ calls' = [calls EXCEPT ![token] = @ + 1]
       /\ IF td.ok
          THEN /\ token_details' = (token :> td.val) @@ token_details
               /\ UNCHANGED << skipped, raised, pc, exc >>
          ELSE /\ raised' = raised \cup {token}
               /\ pc' = "crashed"
               /\ exc' = td.val
               /\ UNCHANGED << token_details, skipped >>
  /\ UNCHANGED << networks, blockchain_idx, rows, queried,
                  missing_tokens, res_v1, res_v2, files, summary >>

\* ResolveToken with an except clause that records nothing.
ResolveToken_not_recorded ==
  /\ pc = "Resolving"
  /\ \E token \in BagToSet(pending), symbol_ok \in BOOLEAN, decimals_ok \in BOOLEAN :
       LET td == TokenDetails_init(token, symbol_ok, decimals_ok) IN
       /\ pending' = pending (-) SetToBag({token})
       /\ calls' = [calls EXCEPT ![token] = @ + 1]
       /\ IF td.ok
          THEN /\ token_details' = (token :> td.val) @@ token_details
               /\ raised' = raised
          ELSE /\ token_details' = token_details
               /\ raised' = raised \cup {token}
  /\ UNCHANGED << networks, blockchain_idx, pc, exc, rows, queried, skipped,
                  missing_tokens, res_v1, res_v2, files, summary >>

\* ResolveToken with the outcome filed by arrival: the k-th outcome to arrive
\* is filed under the k-th address of the batch in ascending order.
ResolveToken_by_arrival ==
  /\ pc = "Resolving"
  /\ \E token \in BagToSet(pending), symbol_ok \in BOOLEAN, decimals_ok \in BOOLEAN :
       LET td == TokenDetails_init(token, symbol_ok, decimals_ok)
           all == Range(missing_tokens.v1) \cup Range(missing_tokens.v2)
           k == Cardinality({ a \in all : calls[a] > 0 }) + 1
           key == CHOOSE a \in all : Cardinality({ b \in all : b < a }) = k - 1
       IN
       /\ pending' = pending (-) SetToBag({token})
       /\ calls' = [calls EXCEPT ![token] = @ + 1]
       /\ IF td.ok
          THEN /\ token_details' = (key :> td.val) @@ token_details
               /\ skipped' = skipped
               /\ raised' = raised
          ELSE /\ token_details' = token_details
               /\ skipped' = Append(skipped, key)
               /\ raised' = raised \cup {token}
  /\ UNCHANGED << networks, blockchain_idx, pc, exc, rows, queried,
                  missing_tokens, res_v1, res_v2, files, summary >>

\* Lines 132-138, one iteration: the set yields its elements in no order the
\* code fixes; the outcome of the two contract reads is the node's.
ResolveToken ==
  /\ pc = "Resolving"
  /\ \E token \in BagToSet(pending), symbol_ok \in BOOLEAN, decimals_ok \in BOOLEAN :
       LET td == TokenDetails_init(token, symbol_ok, decimals_ok) IN
       /\ pending' = pending (-) SetToBag({token})
       /\ calls' = [calls EXCEPT ![token] = @ + 1]
       /\ IF td.ok
          THEN /\ token_details' = (token :> td.val) @@ token_details
               /\ skipped' = skipped
               /\ raised' = raised
          ELSE /\ token_details' = token_details
               /\ skipped' = Append(skipped, token)
               /\ raised' = raised \cup {token}
  /\ UNCHANGED << networks, blockchain_idx, pc, exc, rows, queried,
                  missing_tokens, res_v1, res_v2, files, summary >>

\* token_details[t]: a KeyError when t is no key.
Lookup(details, t) ==
  IF t \in DOMAIN details THEN Ok(details[t]) ELSE Raise("KeyError")

\* Line 141, the comprehension's elements, each a string or what it raised.
ProjectV1(mt, details, skip, network) ==
  LET kept == SelectSeq(mt.v1, LAMBDA t : t \notin Range(skip)) IN
  [ i \in DOMAIN kept |->
      IF Lookup(details, kept[i]).ok
      THEN as_v1_string(Lookup(details, kept[i]).val, network)
      ELSE Lookup(details, kept[i]) ]

\* Line 142 reading the V1 list.
ProjectV2_from_v1(mt, details, skip) ==
  LET kept == SelectSeq(mt.v1, LAMBDA t : t \notin Range(skip)) IN
  [ i \in DOMAIN kept |->
      IF Lookup(details, kept[i]).ok
      THEN as_v2_string(Lookup(details, kept[i]).val)
      ELSE Lookup(details, kept[i]) ]

\* Line 142.
ProjectV2(mt, details, skip) ==
  LET kept == SelectSeq(mt.v2, LAMBDA t : t \notin Range(skip)) IN
  [ i \in DOMAIN kept |->
      IF Lookup(details, kept[i]).ok
      THEN as_v2_string(Lookup(details, kept[i]).val)
      ELSE Lookup(details, kept[i]) ]

Values(results) == [ i \in DOMAIN results |-> results[i].val ]

\* Lines 140-142, once the loop has ended. An exception of either
\* comprehension leaves run_missing_tokens and the loop of line 151.
Project ==
  /\ pc = "Resolving"
  /\ pending = EmptyBag
  /\ LET r1 == ProjectV1(missing_tokens, token_details, skipped, chain)
         r2 == ProjectV2(missing_tokens, token_details, skipped)
     IN IF FirstRaise(r1) # "none"
        THEN /\ pc' = "crashed"
             /\ exc' = FirstRaise(r1)
             /\ UNCHANGED << res_v1, res_v2 >>
        ELSE IF FirstRaise(r2) # "none"
        THEN /\ pc' = "crashed"
             /\ exc' = FirstRaise(r2)
             /\ res_v1' = Values(r1)
             /\ res_v2' = res_v2
        ELSE /\ pc' = "Projected"
             /\ exc' = exc
             /\ res_v1' = Values(r1)
             /\ res_v2' = Values(r2)
  /\ UNCHANGED << networks, blockchain_idx, rows, queried, missing_tokens,
                  pending, token_details, skipped, files, summary, calls, raised >>

\* write_results: the file of that name holds exactly the rows, one a line.
write_results(results, filename) == (filename :> results) @@ files

\* Line 143.
WriteV1 ==
  /\ pc = "Projected"
  /\ files' = write_results(res_v1, V1_FILE)
  /\ summary' = "results_written"
  /\ pc' = "WroteV1"
  /\ UNCHANGED << networks, blockchain_idx, exc, rows, queried, missing_tokens,
                  pending, token_details, skipped, res_v1, res_v2, calls, raised >>

\* Line 144.
WriteV2 ==
  /\ pc = "WroteV1"
  /\ files' = write_results(res_v2, V2_FILE)
  /\ summary' = "results_written"
  /\ pc' = "Done"
  /\ UNCHANGED << networks, blockchain_idx, exc, rows, queried, missing_tokens,
                  pending, token_details, skipped, res_v1, res_v2, calls, raised >>

\* run_missing_tokens returns to the loop of line 151.
Return ==
  /\ pc \in {"Done", "NoTokens"}
  /\ pc' = "main"
  /\ UNCHANGED << networks, blockchain_idx, exc, rows, files, run_vars >>

RunBody ==
  \/ CheckEmpty
  \/ ResolveToken
  \/ Project
  \/ WriteV1
  \/ WriteV2
  \/ Return

Next == MainLoop \/ MainExit \/ FetchSources \/ RunBody

NextBatch == MainLoop \/ MainExit \/ BuildBatch \/ RunBody

Spec == Init /\ [][Next]_vars

SpecBatch == InitBatch /\ [][NextBatch]_vars

\* ------------------------------------------------- notions of the claims
\* The distinct addresses of the batch.
WorkSet == Range(missing_tokens.v1) \cup Range(missing_tokens.v2)

Count(s, x) == Cardinality({ i \in DOMAIN s : s[i] = x })

NoRepeats(s) == \A i, j \in DOMAIN s : s[i] = s[j] => i = j

RECURSIVE SortedSeq(_)
SortedSeq(S) ==
  IF S = {} THEN <<>>
  ELSE LET m == CHOOSE x \in S : \A y \in S : x <= y
       IN << m >> \o SortedSeq(S \ {m})

\* The loop of line 132 has started and has nothing left to yield.
LoopEnded == summary \in {"found", "results_written"} /\ pending = EmptyBag

\* Lines 141 and 142 have both been evaluated.
Projected ==
  \/ pc \in {"Projected", "WroteV1", "Done"}
  \/ pc \in {"main", "exit"} /\ summary = "results_written"

\* The record a token has once its reads succeed.
ResolvedRecord(a) == TokenDetails_init(a, TRUE, TRUE).val

\* The lines of every address, on every network and for V2.
V1Lines ==
  [ c \in Network |-> [ a \in Address |-> as_v1_string(ResolvedRecord(a), c).val ] ]

V2Lines == [ a \in Address |-> as_v2_string(ResolvedRecord(a)).val ]

V1Line(a) == V1Lines[chain][a]

V2Line(a) == V2Lines[a]

NotRaised(s) == SelectSeq(s, LAMBDA t : t \notin raised)

\* ---------------------------------------------------------------- C1
\* C1: in a run on any batch, TokenDetails is constructed at most once per
\* address, and only for addresses of the batch, however often the address
\* occurs in v1, in v2 or in both; an address of both lists whose reads
\* succeeded has its line in each output as often as it is in that list.
C1_ResolvedAtMostOnce ==
  /\ \A a \in Address : calls[a] <= 1
  /\ \A a \in Address : calls[a] = 1 => a \in WorkSet
  /\ Projected =>
       \A a \in Range(missing_tokens.v1) \cap Range(missing_tokens.v2) :
         a \notin raised =>
           /\ Count(res_v1, V1Line(a)) = Count(missing_tokens.v1, a)
           /\ Count(res_v2, V2Line(a)) = Count(missing_tokens.v2, a)
           /\ Count(res_v1, V1Line(a)) >= 1
           /\ Count(res_v2, V2Line(a)) >= 1

\* An address twice in v1 and also in v2 has been resolved, once, and rendered.
C1_Witness ==
  /\ pc = "Done"
  /\ \E a \in Address :
       /\ Count(missing_tokens.v1, a) = 2
       /\ Count(missing_tokens.v2, a) = 1
       /\ calls[a] = 1
       /\ a \notin raised
       /\ Count(res_v1, V1Line(a)) = 2

\* ---------------------------------------------------------------- C2
\* C2: an exception of TokenDetails never leaves the loop: the process does
\* not end on it, every address of the work set has been
\* tried when the loop ends, the addresses that raised are exactly the
\* skipped ones, and a run that reaches the end has written both files.
C2_FailureDoesNotAbort ==
  /\ exc # "ContractLogicError"
  /\ raised # {} /\ pc = "crashed" => exc = "ValueError"
  /\ LoopEnded =>
       /\ \A a \in WorkSet : calls[a] = 1
       /\ Range(skipped) = raised
  /\ pc = "Done" => {V1_FILE, V2_FILE} \subseteq DOMAIN files

\* A run in which one token raised and another was read has written both files.
C2_Witness ==
  /\ pc = "Done"
  /\ raised # {}
  /\ \E a \in DOMAIN token_details : a # NATIVE
  /\ {V1_FILE, V2_FILE} \subseteq DOMAIN files
  /\ files[V2_FILE] # <<>>

\* ---------------------------------------------------------------- C3
\* C3: after the projection each output is its source list, in order and with
\* its repeated entries, less the addresses that raised, each address as the
\* line of its resolved record; no address that raised has a line in either.
C3_ProjectionPreservesOrder ==
  Projected =>
    /\ res_v1 = [ i \in DOMAIN NotRaised(missing_tokens.v1) |->
                    V1Line(NotRaised(missing_tokens.v1)[i]) ]
    /\ res_v2 = [ i \in DOMAIN NotRaised(missing_tokens.v2) |->
                    V2Line(NotRaised(missing_tokens.v2)[i]) ]
    /\ \A a \in raised : V2Line(a) \notin Range(res_v2)
    /\ \A a \in raised : res_v1 # <<>> => V1Line(a) \notin Range(res_v1)

\* v1 holds an address that raised and one that did not, v2 an address twice.
C3_Witness ==
  /\ pc = "Done"
  /\ \E f \in raised : f \in Range(missing_tokens.v1)
  /\ Len(missing_tokens.v1) = 2
  /\ Len(res_v1) = 1
  /\ Len(res_v2) = 2
  /\ res_v2[1] = res_v2[2]

\* ---------------------------------------------------------------- C4
\* C4: on a batch whose two lists are empty the run resolves nothing, writes
\* no file, raises nothing, reports "no missing tokens" and ends.
C4_EmptyBatch ==
  rows.v1 = <<>> /\ rows.v2 = <<>> =>
    /\ exc = "none"
    /\ files = <<>>
    /\ \A a \in Address : calls[a] = 0
    /\ pc \in {"main", "Idle", "SourcesFetched", "NoTokens", "exit"}
    /\ pc = "NoTokens" \/ pc = "exit" \/ (pc = "main" /\ blockchain_idx > 0)
         => summary = "no_missing_tokens"

\* The process has ended after a run on the empty batch.
C4_Witness ==
  /\ pc = "exit"
  /\ missing_tokens = MissingTokenResults(<<>>, <<>>)
  /\ summary = "no_missing_tokens"
  /\ files = <<>>

\* ---------------------------------------------------------------- C5
RunRank(p) ==
  CASE p = "Idle" -> 0
    [] p = "SourcesFetched" -> 1
    [] p = "Resolving" -> 2
    [] p = "Projected" -> 3
    [] p = "WroteV1" -> 4
    [] p = "Done" -> 5
    [] p = "NoTokens" -> 5
    [] OTHER -> 6

RunStates ==
  {"Idle", "SourcesFetched", "Resolving", "Projected", "WroteV1", "Done", "NoTokens"}

\* A step in which TokenDetails raises is a step of the loop that leaves the
\* process in the loop with no exception propagating.
CaughtInLoop ==
  raised' # raised => (pc = "Resolving" /\ pc' = "Resolving" /\ exc' = "none")

\* A step inside a run never leads to an earlier state of the run.
NeverBack ==
  (pc \in RunStates /\ pc' \in RunStates) => (RunRank(pc) <= RunRank(pc'))

CrashIsFinal == (pc = "crashed") => (pc' = "crashed")

\* C5: the exception of a source query ends the process where it is raised,
\* with no TokenDetails constructed and no file written; an exception of
\* TokenDetails is caught: the loop stays in Resolving and no exception
\* propagates; and a run never steps back to an earlier state, nor does a
\* process that has crashed go on.
C5_FatalSourceErrorLinearRun ==
  /\ [](exc = "DuneError" =>
          /\ pc = "crashed"
          /\ \A a \in Address : calls[a] = 0
          /\ files = <<>>
          /\ res_v1 = <<>> /\ res_v2 = <<>>)
  /\ [][CaughtInLoop /\ NeverBack /\ CrashIsFinal]_vars

\* A run of the script in which a token raised has gone through to Done.
C5_Witness ==
  /\ pc = "Done"
  /\ raised # {}
  /\ exc = "none"
  /\ queried = {"v2"}

\* ---------------------------------------------------------------- C6
\* C6: once the sources are fetched both queries have been refreshed, v1 of
\* the batch is the token column of the V1 query, and the V1 file holds the
\* line of every address the V1 query returned whose reads succeeded, in
\* row order.
C6_BothSourcesQueried ==
  /\ pc \in RunStates \ {"Idle"} =>
       /\ queried = {"v1", "v2"}
       /\ missing_tokens.v1 = rows.v1
       /\ missing_tokens.v2 = rows.v2
  /\ pc = "Done" =>
       files[V1_FILE] = [ i \in DOMAIN NotRaised(rows.v1) |->
                            V1Line(NotRaised(rows.v1)[i]) ]

\* ---------------------------------------------------------------- C8
\* The loop of line 132 is about to start: pending is the whole work set.
WorkSetBuilt == pc = "Resolving" /\ \A a \in Address : calls[a] = 0

Disjoint(s, t) == Range(s) \cap Range(t) = {}

\* C8 as stated: lists with no address in common give a work set of
\* |v1| + |v2| addresses, identical lists one of |v1|.
C8_WorkSetSize ==
  WorkSetBuilt =>
    /\ Disjoint(missing_tokens.v1, missing_tokens.v2) =>
         BagCardinality(pending) = Len(missing_tokens.v1) + Len(missing_tokens.v2)
    /\ missing_tokens.v1 = missing_tokens.v2 =>
         BagCardinality(pending) = Len(missing_tokens.v1)

\* C8 amended: the same for lists in which no address is repeated; in
\* general the work set has as many addresses as the lists have distinct ones.
C8_WorkSetSizeNoRepeats ==
  WorkSetBuilt =>
    /\ /\ Disjoint(missing_tokens.v1, missing_tokens.v2)
       /\ NoRepeats(missing_tokens.v1)
       /\ NoRepeats(missing_tokens.v2)
       => BagCardinality(pending) = Len(missing_tokens.v1) + Len(missing_tokens.v2)
    /\ missing_tokens.v1 = missing_tokens.v2 /\ NoRepeats(missing_tokens.v1)
       => BagCardinality(pending) = Len(missing_tokens.v1)
    /\ BagCardinality(pending) = Cardinality(WorkSet)
    /\ BagCardinality(pending) <= Len(missing_tokens.v1) + Len(missing_tokens.v2)

\* A work set built from two lists with no address in common or repeated.
C8_Witness ==
  /\ WorkSetBuilt
  /\ Disjoint(missing_tokens.v1, missing_tokens.v2)
  /\ NoRepeats(missing_tokens.v1)
  /\ NoRepeats(missing_tokens.v2)
  /\ Len(missing_tokens.v1) >= 1
  /\ Len(missing_tokens.v2) = 2
  /\ BagCardinality(pending) = 3

\* ---------------------------------------------------------------- C9
\* What the loop leaves when it takes the addresses in ascending order and
\* meets the same outcomes.
SequentialDetails == [ a \in WorkSet \ raised |-> ResolvedRecord(a) ]

SequentialSkipped == SortedSeq(raised)

\* C9: with the same batch and the same outcome per address, the outputs are
\* those of the run that resolves the addresses in ascending order, in
\* whatever order this run resolved them.
C9_OrderIndependent ==
  Projected =>
    /\ res_v1 = Values(ProjectV1(missing_tokens, SequentialDetails,
                                 SequentialSkipped, chain))
    /\ res_v2 = Values(ProjectV2(missing_tokens, SequentialDetails,
                                 SequentialSkipped))

\* Two tokens were read in descending order, two raised in descending order
\* or one was read before a smaller one raised; lines were written.
C9_Witness ==
  /\ pc = "Done"
  /\ Len(skipped) = 2
  /\ skipped[1] > skipped[2]
  /\ res_v2 # <<>>
  /\ res_v1 # <<>>

\* --------------------------------------------------------------- C10
\* C10: no address that raised has an entry of token_details; when the loop
\* has ended the keys of token_details and the skipped addresses are disjoint
\* and together are the work set, so that the lookups of lines 141 and 142
\* find their key and no KeyError is raised.
C10_DetailsAndSkippedPartition ==
  /\ exc # "KeyError"
  /\ \A a \in raised : a \notin DOMAIN token_details
  /\ DOMAIN token_details \cap Range(skipped) = {}
  /\ LoopEnded =>
       /\ DOMAIN token_details \cup Range(skipped) = WorkSet
       /\ \A t \in WorkSet :
            t \notin Range(skipped) => Lookup(token_details, t).ok

\* The loop has ended with a token skipped and a contract token read.
C10_Witness ==
  /\ pc = "Projected"
  /\ skipped # <<>>
  /\ \E a \in DOMAIN token_details : a # NATIVE /\ token_details[a] = ResolvedRecord(a)

=============================================================================
